---- MODULE Spec2Model ----
(***************************************************************************)
(* Streaming decoders of mono-ai: the OpenAI stream processor, the         *)
(* OpenRouter stream processor, and the per-chunk decoders of the Ollama   *)
(* and Anthropic clients; and the fallback tool handler, which extracts    *)
(* tool calls from the text of a response, with the Ollama and OpenRouter  *)
(* clients that decide when it is used.                                    *)
(*                                                                         *)
(* Text is a sequence of symbols.  The wire symbols are "\n", the SSE      *)
(* prefix "data: ", the sentinel "[DONE]", and, for every record of the    *)
(* catalogue, the two halves of its JSON text; all of them are ASCII, on   *)
(* which String::from_utf8_lossy is the identity.  A JSON text parses only *)
(* when both halves are there, in order, on one line.                      *)
(***************************************************************************)
EXTENDS Integers, Sequences, FiniteSets, TLC

VARIABLES
    provider,   \* which client decodes the stream
    script,     \* the records the server writes, in order
    wire,       \* the bytes of these records, in order
    sent,       \* how many of them the transport has handed over
    transport,  \* "open", "closed" (end of stream reported), "failed"
    openai,     \* OpenAIStreamProcessor
    openrouter, \* OpenRouterStreamProcessor
    events,     \* the StreamEvents of the OpenRouter event stream, in order
    items,      \* what the consumer has been given, in order
    lastPoll,   \* the result of the latest poll: "item", "none", "-"
    called,     \* a function of the library called on its own, and its argument
    returned,   \* what the call returned, once it has
    client,     \* the client of a session: OllamaClient or OpenRouterClient
    request,    \* the body of the latest chat request of the session
    modes,      \* the modes the OpenRouter client has used in the session
    streams     \* the streams decoded side by side, each with its processor

sessionVars == <<client, request, modes>>
callVars == <<called, returned, sessionVars>>
vars == <<provider, script, wire, sent, transport, openai, openrouter, events, items, lastPoll,
          callVars, streams>>

\* The longest payload, in records.
MaxRecs == 3

---------------------------------------------------------------------------
(* Option<T> *)
None == {}
Some(v) == {v}
IsSome(o) == o # {}
Unwrap(o) == CHOOSE v \in o : TRUE

---------------------------------------------------------------------------
(* Strings *)

Range(f) == {f[i] : i \in DOMAIN f}
Last(s) == s[Len(s)]

NL == "\n"
DataPrefix == "data: "
DoneSentinel == "[DONE]"

\* str::find("\n\n"): the index of the first blank-line delimiter, 0 for None.
FindBlankLine(s) ==
    LET hits == {i \in 1..(Len(s) - 1) : s[i] = NL /\ s[i + 1] = NL}
    IN IF hits = {} THEN 0 ELSE CHOOSE i \in hits : \A j \in hits : i <= j

\* str::lines(): the pieces between "\n"; a final empty piece is not a line.
RECURSIVE Lines(_)
Lines(s) ==
    LET nls == {i \in 1..Len(s) : s[i] = NL}
    IN IF s = <<>> THEN <<>>
       ELSE IF nls = {} THEN <<s>>
       ELSE LET i == CHOOSE k \in nls : \A j \in nls : k <= j
            IN <<SubSeq(s, 1, i - 1)>> \o Lines(SubSeq(s, i + 1, Len(s)))

\* str::starts_with("data: ")
StartsWithData(line) == line # <<>> /\ line[1] = DataPrefix

\* serde_json::from_str::<serde_json::Value>: a JSON text over the argument
\* symbols "{", "k:1", "}" and " ".  Whitespace around the tokens is not
\* significant; the value is the text without it.
ArgSyms == {"{", "k:1", "}", " "}
Significant(s) == SelectSeq(s, LAMBDA c : c # " ")
JsonObjects == {<<"{", "}">>, <<"{", "k:1", "}">>}
ParseValue(s) ==
    IF Significant(s) \in JsonObjects THEN Some(Significant(s)) ELSE None
Null == <<"null">>

---------------------------------------------------------------------------
(* The records a server writes.  A record is named by a short string; its *)
(* JSON text is the two symbols "{" \o name and name \o "}".               *)

Usage(n) == [prompt_tokens |-> n, completion_tokens |-> n, total_tokens |-> n + n]

\* One element of delta.tool_calls as it is on the wire.  "index" is the
\* position the server gives the call; neither OpenAIToolCall nor
\* OpenRouterToolCall has a field for it, so serde drops it.
Fragment(index, id, name, arguments) ==
    [index |-> index, id |-> id, name |-> name, arguments |-> arguments]

DeltaDoc(content, tool_calls, finish_reason, usage) ==
    [usage |-> usage,
     choices |-> <<[delta |-> Some([content |-> content, tool_calls |-> tool_calls]),
                    finish_reason |-> finish_reason]>>]

TextDoc(t) == DeltaDoc(Some(t), None, None, None)
ToolDoc(frags) == DeltaDoc(None, Some(frags), None, None)
UsageDoc(n) == [usage |-> Some(Usage(n)), choices |-> <<>>]

JsonRecs == {"Ta", "Tb", "F0", "F1", "Fy", "G1", "Fc", "Fw", "Fi", "Fn", "F2", "Us", "Fin"}

DocOf(r) ==
    CASE r = "Ta" -> TextDoc(<<"a">>)
      [] r = "Tb" -> TextDoc(<<"b">>)
      \* position 0: id and name with the opening of the arguments
      [] r = "F0" -> ToolDoc(<<Fragment(0, Some("x"), Some("f"), Some(<<"{">>))>>)
      \* position 0: the rest of the arguments
      [] r = "F1" -> ToolDoc(<<Fragment(0, None, None, Some(<<"k:1", "}">>))>>)
      \* position 0 again, with another id and name
      [] r = "Fy" -> ToolDoc(<<Fragment(0, Some("y"), Some("g"), Some(<<>>))>>)
      \* a second call, at position 1, alone in its array
      [] r = "G1" -> ToolDoc(<<Fragment(1, Some("z"), Some("h"), Some(<<"{", "}">>))>>)
      \* position 0: id, name and the whole arguments in one fragment
      [] r = "Fc" -> ToolDoc(<<Fragment(0, Some("x"), Some("f"), Some(<<"{", "}">>))>>)
      \* position 0: white space
      [] r = "Fw" -> ToolDoc(<<Fragment(0, None, None, Some(<<" ">>))>>)
      \* position 0: the id, without a name, with the opening of the arguments
      [] r = "Fi" -> ToolDoc(<<Fragment(0, Some("x"), None, Some(<<"{">>))>>)
      \* position 0: the name, without an id, with the rest of the arguments
      [] r = "Fn" -> ToolDoc(<<Fragment(0, None, Some("f"), Some(<<"k:1", "}">>))>>)
      \* two calls in one array, at the positions 0 and 1, each complete
      [] r = "F2" -> ToolDoc(<<Fragment(0, Some("x"), Some("f"), Some(<<"{", "}">>)),
                               Fragment(1, Some("z"), Some("h"), Some(<<"{", "}">>))>>)
      [] r = "Us" -> UsageDoc(7)
      [] r = "Fin" -> DeltaDoc(Some(<<>>), None, Some("stop"), None)

\* The lines of the Ollama chat API: ChatResponse.
OllamaRecs == {"Oa", "Ob", "Od", "Ot", "Ou"}
ChatResponse(content, tool_calls, done) ==
    [message |-> [content |-> content, tool_calls |-> tool_calls], done |-> done]
OllamaDocOf(r) ==
    CASE r = "Oa" -> ChatResponse(<<"a">>, None, FALSE)
      [] r = "Ob" -> ChatResponse(<<"b">>, None, FALSE)
      [] r = "Od" -> ChatResponse(<<>>, None, TRUE)
      \* a line with the tool call f, a line with the tool call g
      [] r = "Ot" -> ChatResponse(<<>>, Some(<<[id |-> None, name |-> "f",
                                                arguments |-> <<"{", "}">>]>>), FALSE)
      [] r = "Ou" -> ChatResponse(<<>>, Some(<<[id |-> None, name |-> "g",
                                                arguments |-> <<"{", "}">>]>>), FALSE)

\* The events of the Anthropic messages API: StreamingEvent.
AnthropicRecs == {"Aa", "Ab", "Astop", "Aping", "Atool", "Aj1", "Aj2"}
AnthropicDocOf(r) ==
    CASE r = "Aa" -> [type |-> "content_block_delta", delta_type |-> "text_delta",
                      text |-> <<"a">>]
      [] r = "Ab" -> [type |-> "content_block_delta", delta_type |-> "text_delta",
                      text |-> <<"b">>]
      [] r = "Astop" -> [type |-> "message_stop", delta_type |-> "", text |-> <<>>]
      [] r = "Aping" -> [type |-> "ping", delta_type |-> "", text |-> <<>>]
      \* the start of a tool_use block, its input still the empty object
      [] r = "Atool" -> [type |-> "content_block_start", block_type |-> "tool_use",
                         name |-> "f", input |-> <<"{", "}">>]
      \* the input of the tool_use block, in two fragments
      [] r = "Aj1" -> [type |-> "content_block_delta", delta_type |-> "input_json_delta",
                       partial_json |-> <<"{">>]
      [] r = "Aj2" -> [type |-> "content_block_delta", delta_type |-> "input_json_delta",
                       partial_json |-> <<"k:1", "}">>]

JsonText(r) == <<"{" \o r, r \o "}">>

\* What the server writes for record r: one SSE block.
\* An Ollama record is one line; an Anthropic record has an "event:" line
\* before its "data:" line.
EventLine == "event: "
CommentLine == ": keep-alive"
Block(r) ==
    CASE r = "Done" -> <<DataPrefix, DoneSentinel, NL, NL>>
      [] r = "Bad" -> <<DataPrefix, "{bad", NL, NL>>
      \* the record "Ta" with a comment line, or an "event:" line, before its
      \* "data:" line in the block
      [] r = "Ca" -> <<CommentLine, NL, DataPrefix>> \o JsonText("Ta") \o <<NL, NL>>
      [] r = "Ea" -> <<EventLine, NL, DataPrefix>> \o JsonText("Ta") \o <<NL, NL>>
      [] r \in OllamaRecs -> JsonText(r) \o <<NL>>
      [] r \in AnthropicRecs -> <<EventLine, NL, DataPrefix>> \o JsonText(r) \o <<NL, NL>>
      [] OTHER -> <<DataPrefix>> \o JsonText(r) \o <<NL, NL>>

RECURSIVE Payload(_)
Payload(rs) == IF rs = <<>> THEN <<>> ELSE Block(Head(rs)) \o Payload(Tail(rs))

\* serde_json::from_str of a record type: Some(document) or None for Err.
ParseDoc(json_str) ==
    LET hit == {r \in JsonRecs : json_str = JsonText(r)}
    IN IF hit = {} THEN None ELSE Some(DocOf(CHOOSE r \in hit : TRUE))

\* serde_json::from_slice::<ChatResponse>
ParseChatResponse(line) ==
    LET hit == {r \in OllamaRecs : line = JsonText(r)}
    IN IF hit = {} THEN None ELSE Some(OllamaDocOf(CHOOSE r \in hit : TRUE))

\* serde_json::from_str::<StreamingEvent>
ParseStreamingEvent(json_str) ==
    LET hit == {r \in AnthropicRecs : json_str = JsonText(r)}
    IN IF hit = {} THEN None ELSE Some(AnthropicDocOf(CHOOSE r \in hit : TRUE))

\* slice::split(|&b| b == b'\n'): the pieces between "\n", empty ones too.
RECURSIVE SplitLines(_)
SplitLines(s) ==
    LET nls == {i \in 1..Len(s) : s[i] = NL}
    IN IF nls = {} THEN <<s>>
       ELSE LET i == CHOOSE k \in nls : \A j \in nls : k <= j
            IN <<SubSeq(s, 1, i - 1)>> \o SplitLines(SubSeq(s, i + 1, Len(s)))

---------------------------------------------------------------------------
(* Items *)

ToolCall(id, name, arguments) == [id |-> id, name |-> name, arguments |-> arguments]

\* Ok(ChatStreamItem { content, tool_calls, done, usage })
OkItem(content, tool_calls, done, usage) ==
    [ok |-> TRUE, content |-> content, tool_calls |-> tool_calls, done |-> done,
     usage |-> usage, err |-> ""]

\* Err(message)
ErrItem(msg) ==
    [ok |-> FALSE, content |-> <<>>, tool_calls |-> None, done |-> FALSE,
     usage |-> None, err |-> msg]

\* HashMap
EmptyMap == <<>>
Insert(m, k, v) == [x \in (DOMAIN m) \cup {k} |-> IF x = k THEN v ELSE m[x]]
Remove(m, k) == [x \in (DOMAIN m) \ {k} |-> m[x]]

\* The orders in which a HashMap may list the positions.
Positions == {0, 1}
Orders == {<<0, 1>>, <<1, 0>>}
FirstOrder == <<0, 1>>
\* The orders that list the entries of accumulated_tool_calls differently.
OrdersOf(self) ==
    IF Cardinality(DOMAIN self.accumulated_tool_calls) > 1 THEN Orders ELSE {FirstOrder}

---------------------------------------------------------------------------
(* OpenAIStreamProcessor *)

OpenAINew ==
    [accumulated_content |-> <<>>,
     accumulated_tool_calls |-> EmptyMap,
     accumulating_tool_args |-> EmptyMap,
     buffer |-> <<>>,
     done |-> FALSE,
     usage |-> None]

\* TokenUsage from the usage of a chunk (the cost is left out).
TokenUsage(u) ==
    [prompt_tokens |-> Some(u.prompt_tokens),
     completion_tokens |-> Some(u.completion_tokens),
     total_tokens |-> Some(u.total_tokens)]

\* The argument text of position i parsed into the call, when there is one,
\* it is not empty and it parses.
OpenAIFinalCall(self, i) ==
    LET tool_call == self.accumulated_tool_calls[i]
        args == IF i \in DOMAIN self.accumulating_tool_args
                THEN ParseValue(self.accumulating_tool_args[i]) ELSE None
    IN IF i \in DOMAIN self.accumulating_tool_args
          /\ self.accumulating_tool_args[i] # <<>>
          /\ IsSome(args)
       THEN [tool_call EXCEPT !.arguments = Unwrap(args)]
       ELSE tool_call

\* final_tool_calls: every accumulated call, in the order ord of the map.
OpenAIFinalToolCalls(self, ord) ==
    LET keys == SelectSeq(ord, LAMBDA i : i \in DOMAIN self.accumulated_tool_calls)
    IN IF self.accumulated_tool_calls # EmptyMap
       THEN Some([k \in 1..Len(keys) |-> OpenAIFinalCall(self, keys[k])])
       ELSE None

\* The terminal item.
OpenAITerminalItem(self, ord) ==
    OkItem(<<>>, OpenAIFinalToolCalls(self, ord), TRUE, self.usage)

\* One element of delta.tool_calls, at index i of the array.
OpenAIToolCallDelta(self, i, tool_call) ==
    LET created ==
            IF i \notin DOMAIN self.accumulated_tool_calls
            THEN Insert(self.accumulated_tool_calls, i,
                        ToolCall(tool_call.id,
                                 IF IsSome(tool_call.name) THEN Unwrap(tool_call.name) ELSE "",
                                 Null))
            ELSE self.accumulated_tool_calls
        args ==
            IF IsSome(tool_call.arguments) /\ Unwrap(tool_call.arguments) # <<>>
            THEN Insert(self.accumulating_tool_args, i,
                        (IF i \in DOMAIN self.accumulating_tool_args
                         THEN self.accumulating_tool_args[i] ELSE <<>>)
                        \o Unwrap(tool_call.arguments))
            ELSE self.accumulating_tool_args
        named ==
            IF IsSome(tool_call.name) /\ Unwrap(tool_call.name) # ""
            THEN [created EXCEPT ![i].name = Unwrap(tool_call.name)]
            ELSE created
        identified ==
            IF IsSome(tool_call.id) /\ Unwrap(tool_call.id) # ""
            THEN [named EXCEPT ![i].id = tool_call.id]
            ELSE named
    IN [self EXCEPT !.accumulated_tool_calls = identified,
                    !.accumulating_tool_args = args]

\* for (i, tool_call) in tool_calls.iter().enumerate(), from index i on.
RECURSIVE OpenAIToolCallDeltas(_, _, _)
OpenAIToolCallDeltas(self, tool_calls, i) ==
    IF i >= Len(tool_calls) THEN self
    ELSE OpenAIToolCallDeltas(OpenAIToolCallDelta(self, i, tool_calls[i + 1]),
                              tool_calls, i + 1)

\* A parsed chunk: usage, then the delta of the first choice.  st is the
\* processor with the content and the flag that poll_next keeps per chunk.
OpenAIChunk(st, chunk) ==
    LET withUsage ==
            IF IsSome(chunk.usage)
            THEN [st.self EXCEPT !.usage = Some(TokenUsage(Unwrap(chunk.usage)))]
            ELSE st.self
        delta == IF chunk.choices # <<>> THEN chunk.choices[1].delta ELSE None
        text == IF IsSome(delta) /\ IsSome(Unwrap(delta).content)
                THEN Unwrap(Unwrap(delta).content) ELSE <<>>
        withText ==
            [withUsage EXCEPT !.accumulated_content = @ \o text]
        tool_calls == IF IsSome(delta) THEN Unwrap(delta).tool_calls ELSE None
    IN [self |-> IF IsSome(tool_calls)
                 THEN OpenAIToolCallDeltas(withText, Unwrap(tool_calls), 0)
                 ELSE withText,
        accumulated_content |-> st.accumulated_content \o text,
        has_any_tool_calls |-> st.has_any_tool_calls \/ IsSome(tool_calls),
        ret |-> None]

\* As OpenAIDoneRecord, but the done flag is not set.
OpenAIDoneRecordNotFlagged(st, ord) ==
    [st EXCEPT !.ret = Some(OpenAITerminalItem(st.self, ord))]

\* The line "data: [DONE]": the processor is done and poll_next returns the
\* terminal item.
OpenAIDoneRecord(st, ord) ==
    LET self == [st.self EXCEPT !.done = TRUE]
    IN [st EXCEPT !.self = self, !.ret = Some(OpenAITerminalItem(self, ord))]

\* for line in event.lines(): ret is the item poll_next returns from inside
\* the loop, None when the loop runs to its end.
RECURSIVE OpenAIEventLines(_, _, _)
OpenAIEventLines(st, lines, ord) ==
    IF lines = <<>> THEN st
    ELSE LET line == Head(lines)
             json_str == Tail(line)
             chunk == ParseDoc(json_str)
         IN IF ~StartsWithData(line) THEN OpenAIEventLines(st, Tail(lines), ord)
            ELSE IF json_str = <<DoneSentinel>> THEN OpenAIDoneRecord(st, ord)
            ELSE IF IsSome(chunk)
            THEN OpenAIEventLines(OpenAIChunk(st, Unwrap(chunk)), Tail(lines), ord)
            ELSE [st EXCEPT !.ret = Some(ErrItem("JSON parse error"))]

\* while let Some(event_end) = self.buffer.find("\n\n")
RECURSIVE OpenAIEvents(_, _)
OpenAIEvents(st, ord) ==
    LET event_end == FindBlankLine(st.self.buffer)
        event == SubSeq(st.self.buffer, 1, event_end - 1)
        rest == SubSeq(st.self.buffer, event_end + 2, Len(st.self.buffer))
        after == OpenAIEventLines([st EXCEPT !.self.buffer = rest], Lines(event), ord)
    IN IF event_end = 0 THEN st
       ELSE IF IsSome(after.ret) THEN after
       ELSE OpenAIEvents(after, ord)

\* As OpenAIOnChunk, but the item of a chunk carries the calls accumulated so
\* far and the usage.
OpenAIOnChunkWithPartialCalls(self, chunk_str, ord) ==
    LET st == OpenAIEvents([self |-> [self EXCEPT !.buffer = @ \o chunk_str],
                            accumulated_content |-> <<>>,
                            has_any_tool_calls |-> FALSE,
                            ret |-> None], ord)
    IN [self |-> st.self,
        ret |-> IF IsSome(st.ret) THEN st.ret
                ELSE IF st.accumulated_content # <<>> \/ st.has_any_tool_calls
                THEN Some(OkItem(st.accumulated_content,
                                 OpenAIFinalToolCalls(st.self, ord), FALSE, st.self.usage))
                ELSE None]

\* poll_next, the transport has Ok(chunk): the processor afterwards, and the
\* item returned (None: nothing to return, the loop polls the transport again).
OpenAIOnChunk(self, chunk_str, ord) ==
    LET st == OpenAIEvents([self |-> [self EXCEPT !.buffer = @ \o chunk_str],
                            accumulated_content |-> <<>>,
                            has_any_tool_calls |-> FALSE,
                            ret |-> None], ord)
    IN [self |-> st.self,
        ret |-> IF IsSome(st.ret) THEN st.ret
                ELSE IF st.accumulated_content # <<>> \/ st.has_any_tool_calls
                THEN Some(OkItem(st.accumulated_content, None, FALSE, None))
                ELSE None]

\* End of transport, first pass over the buffer: the arguments of the tool
\* calls of every line that parses.
RECURSIVE OpenAIFinalArgs(_, _, _)
OpenAIFinalArgs(self, tool_calls, i) ==
    IF i >= Len(tool_calls) THEN self
    ELSE LET args_str == tool_calls[i + 1].arguments
             next ==
                 IF IsSome(args_str) /\ Unwrap(args_str) # <<>>
                 THEN [self EXCEPT !.accumulating_tool_args =
                           Insert(@, i,
                                  (IF i \in DOMAIN @ THEN @[i] ELSE <<>>)
                                  \o Unwrap(args_str))]
                 ELSE self
         IN OpenAIFinalArgs(next, tool_calls, i + 1)

RECURSIVE OpenAIFinalArgsLines(_, _)
OpenAIFinalArgsLines(self, lines) ==
    IF lines = <<>> THEN self
    ELSE LET line == Head(lines)
             json_str == Tail(line)
             chunk == ParseDoc(json_str)
             delta == IF IsSome(chunk) /\ Unwrap(chunk).choices # <<>>
                      THEN Unwrap(chunk).choices[1].delta ELSE None
             tool_calls == IF IsSome(delta) THEN Unwrap(delta).tool_calls ELSE None
             next ==
                 IF StartsWithData(line) /\ json_str # <<DoneSentinel>>
                    /\ json_str # <<>> /\ IsSome(tool_calls)
                 THEN OpenAIFinalArgs(self, Unwrap(tool_calls), 0)
                 ELSE self
         IN OpenAIFinalArgsLines(next, Tail(lines))

\* As OpenAIFinalUsageLines, but the buffer is not looked at.
OpenAIFinalUsageSkipped(self, lines) == self

\* End of transport, second pass over the buffer: the usage of every line
\* that parses.
RECURSIVE OpenAIFinalUsageLines(_, _)
OpenAIFinalUsageLines(self, lines) ==
    IF lines = <<>> THEN self
    ELSE LET line == Head(lines)
             json_str == Tail(line)
             chunk == ParseDoc(json_str)
             next ==
                 IF StartsWithData(line) /\ json_str # <<DoneSentinel>>
                    /\ json_str # <<>> /\ IsSome(chunk) /\ IsSome(Unwrap(chunk).usage)
                 THEN [self EXCEPT !.usage = Some(TokenUsage(Unwrap(Unwrap(chunk).usage)))]
                 ELSE self
         IN OpenAIFinalUsageLines(next, Tail(lines))

\* poll_next, the transport has None: what is left in the buffer, then the
\* terminal item.
OpenAIOnEnd(self, ord) ==
    LET lines == Lines(self.buffer)
        final == [OpenAIFinalUsageLines(OpenAIFinalArgsLines(self, lines), lines)
                      EXCEPT !.done = TRUE]
    IN [self |-> final, ret |-> Some(OpenAITerminalItem(final, ord))]

\* poll_next, the transport has Err(e).
OpenAIOnError(self) ==
    [self |-> self, ret |-> Some(ErrItem("Stream error"))]

---------------------------------------------------------------------------
(* OpenRouterStreamProcessor *)

OpenRouterNew ==
    [buffer |-> <<>>,
     accumulating_tool_args |-> EmptyMap,
     tool_call_info |-> EmptyMap,
     usage |-> None]

\* StreamEvent
ContentEvent(content) ==
    [kind |-> "Content", content |-> content, id |-> "", name |-> "",
     arguments |-> <<>>, usage |-> None]
ToolCallEvent(id, name, arguments) ==
    [kind |-> "ToolCall", content |-> <<>>, id |-> id, name |-> name,
     arguments |-> arguments, usage |-> None]
DoneEvent ==
    [kind |-> "Done", content |-> <<>>, id |-> "", name |-> "",
     arguments |-> <<>>, usage |-> None]
UsageEvent(usage) ==
    [kind |-> "Usage", content |-> <<>>, id |-> "", name |-> "",
     arguments |-> <<>>, usage |-> Some(usage)]

\* str::trim(): without the white space at both ends.
RECURSIVE Trim(_)
Trim(s) ==
    IF s = <<>> THEN s
    ELSE IF Head(s) \in {NL, " "} THEN Trim(Tail(s))
    ELSE IF Last(s) \in {NL, " "} THEN Trim(SubSeq(s, 1, Len(s) - 1))
    ELSE s

\* event_data.starts_with(':')
StartsWithColon(event_data) == event_data # <<>> /\ event_data[1] = CommentLine

\* "Store ID and name when we first see them": the entry of position index is
\* written whenever the fragment has an id and a name.
OpenRouterStoreInfo(self, index, tool_call) ==
    IF IsSome(tool_call.id) /\ IsSome(tool_call.name)
    THEN [self EXCEPT !.tool_call_info =
              Insert(@, index, <<Unwrap(tool_call.id), Unwrap(tool_call.name)>>)]
    ELSE self

\* As OpenRouterArguments, but the arguments replace the text of the position.
OpenRouterArgumentsReplaced(st, index, tool_call) ==
    LET self == st.self
        accumulated == Unwrap(tool_call.arguments)
        stored == self.tool_call_info[index]
    IN IF ~IsSome(tool_call.arguments) THEN st
       ELSE IF ~IsSome(ParseValue(accumulated))
       THEN [st EXCEPT !.self.accumulating_tool_args = Insert(@, index, accumulated)]
       ELSE IF index \in DOMAIN self.tool_call_info
       THEN [self |-> [self EXCEPT !.tool_call_info = Remove(@, index),
                                   !.accumulating_tool_args = Remove(@, index)],
             events |-> Append(st.events,
                               ToolCallEvent(stored[1], stored[2], accumulated))]
       ELSE [st EXCEPT !.self.accumulating_tool_args = Remove(@, index)]

\* The arguments of one fragment: appended to the text of position index,
\* and the call is emitted when the text parses.  st is the processor with
\* the events of this process_chunk call.
OpenRouterArguments(st, index, tool_call) ==
    LET self == st.self
        accumulated ==
            (IF index \in DOMAIN self.accumulating_tool_args
             THEN self.accumulating_tool_args[index] ELSE <<>>)
            \o Unwrap(tool_call.arguments)
        stored == self.tool_call_info[index]
    IN IF ~IsSome(tool_call.arguments) THEN st
       ELSE IF ~IsSome(ParseValue(accumulated))
       THEN [st EXCEPT !.self.accumulating_tool_args = Insert(@, index, accumulated)]
       ELSE IF index \in DOMAIN self.tool_call_info
       THEN [self |-> [self EXCEPT !.tool_call_info = Remove(@, index),
                                   !.accumulating_tool_args = Remove(@, index)],
             events |-> Append(st.events,
                               ToolCallEvent(stored[1], stored[2], accumulated))]
       ELSE IF IsSome(tool_call.id)
       THEN [self |-> [self EXCEPT !.accumulating_tool_args = Remove(@, index)],
             events |-> Append(st.events,
                               ToolCallEvent(Unwrap(tool_call.id),
                                             IF IsSome(tool_call.name)
                                             THEN Unwrap(tool_call.name) ELSE "",
                                             accumulated))]
       ELSE [st EXCEPT !.self.accumulating_tool_args = Remove(@, index)]

\* for (index, tool_call) in tool_calls.iter().enumerate(), from index on.
RECURSIVE OpenRouterToolCalls(_, _, _)
OpenRouterToolCalls(st, tool_calls, index) ==
    IF index >= Len(tool_calls) THEN st
    ELSE LET tool_call == tool_calls[index + 1]
             info == [st EXCEPT !.self = OpenRouterStoreInfo(@, index, tool_call)]
         IN OpenRouterToolCalls(OpenRouterArguments(info, index, tool_call),
                                tool_calls, index + 1)

\* A record that parsed: usage, content, tool calls, finish_reason.
OpenRouterResponse(st, response) ==
    LET withUsage ==
            IF IsSome(response.usage)
            THEN [self |-> [st.self EXCEPT
                               !.usage = Some(TokenUsage(Unwrap(response.usage)))],
                  events |-> Append(st.events,
                                    UsageEvent(TokenUsage(Unwrap(response.usage))))]
            ELSE st
        choice == response.choices[1]
        delta == IF response.choices # <<>> THEN choice.delta ELSE None
        content_str == IF IsSome(delta) /\ IsSome(Unwrap(delta).content)
                       THEN Unwrap(Unwrap(delta).content) ELSE <<>>
        withContent ==
            IF content_str # <<>>
            THEN [withUsage EXCEPT !.events = Append(@, ContentEvent(content_str))]
            ELSE withUsage
        withCalls ==
            IF IsSome(delta) /\ IsSome(Unwrap(delta).tool_calls)
            THEN OpenRouterToolCalls(withContent, Unwrap(Unwrap(delta).tool_calls), 0)
            ELSE withContent
    IN IF response.choices # <<>> /\ IsSome(choice.finish_reason)
          /\ Unwrap(choice.finish_reason) # ""
       THEN [withCalls EXCEPT !.events = Append(@, DoneEvent)]
       ELSE withCalls

\* while let Some(event_end) = self.buffer.find("\n\n")
RECURSIVE OpenRouterEvents(_)
OpenRouterEvents(st) ==
    LET event_end == FindBlankLine(st.self.buffer)
        event_data == Trim(SubSeq(st.self.buffer, 1, event_end - 1))
        rest == SubSeq(st.self.buffer, event_end + 2, Len(st.self.buffer))
        taken == [st EXCEPT !.self.buffer = rest]
        data == Tail(event_data)
        response == ParseDoc(data)
    IN IF event_end = 0 THEN st
       ELSE IF StartsWithColon(event_data) THEN OpenRouterEvents(taken)
       ELSE IF ~StartsWithData(event_data) THEN OpenRouterEvents(taken)
       ELSE IF data = <<DoneSentinel>>
       THEN [taken EXCEPT !.events = Append(@, DoneEvent)]
       ELSE IF IsSome(response)
       THEN OpenRouterEvents(OpenRouterResponse(taken, Unwrap(response)))
       ELSE OpenRouterEvents(taken)

\* process_chunk: the processor afterwards and the events returned.
OpenRouterProcessChunk(self, chunk) ==
    OpenRouterEvents([self |-> [self EXCEPT !.buffer = @ \o chunk], events |-> <<>>])

\* send_chat_request: the item of one event; estimate is what
\* get_usage_estimate answers.
OpenRouterItem(event, estimate) ==
    CASE event.kind = "Content" -> OkItem(event.content, None, FALSE, None)
      [] event.kind = "ToolCall" ->
            OkItem(<<>>,
                   Some(<<ToolCall(Some(event.id), event.name,
                                   IF IsSome(ParseValue(event.arguments))
                                   THEN Unwrap(ParseValue(event.arguments))
                                   ELSE Null)>>),
                   FALSE, None)
      [] event.kind = "Usage" -> OkItem(<<>>, None, FALSE, event.usage)
      [] event.kind = "Done" -> OkItem(<<>>, None, TRUE, estimate)

OpenRouterItems(evs, estimate) ==
    [i \in 1..Len(evs) |-> OpenRouterItem(evs[i], estimate)]

\* What get_usage_estimate may answer.
UsageEstimates == {None, Some(TokenUsage(Usage(1)))}
\* get_usage_estimate is called for Done events only.
EstimatesFor(evs) ==
    IF \E i \in 1..Len(evs) : evs[i].kind = "Done" THEN UsageEstimates ELSE {None}

---------------------------------------------------------------------------
(* The chunk decoders of OllamaClient and AnthropicClient *)

\* OllamaClient::send_chat_request_stream_with_options, the closure of
\* stream.map on one chunk: an item for every line that parses.
RECURSIVE OllamaLines(_)
OllamaLines(lines) ==
    IF lines = <<>> THEN <<>>
    ELSE LET line == Head(lines)
             chat_response == ParseChatResponse(line)
         IN (IF line # <<>> /\ IsSome(chat_response)
             THEN <<OkItem(Unwrap(chat_response).message.content,
                           Unwrap(chat_response).message.tool_calls,
                           Unwrap(chat_response).done, None)>>
             ELSE <<>>)
            \o OllamaLines(Tail(lines))

OllamaDecode(chunk) == OllamaLines(SplitLines(chunk))

\* The items of one StreamingEvent.
AnthropicEvent(event) ==
    CASE event.type = "content_block_delta" /\ event.delta_type = "text_delta" ->
            <<OkItem(event.text, None, FALSE, None)>>
      [] event.type = "message_stop" -> <<OkItem(<<>>, None, TRUE, None)>>
      [] event.type = "content_block_start" /\ event.block_type = "tool_use" ->
            <<OkItem(<<>>, Some(<<ToolCall(None, event.name, event.input)>>), FALSE, None)>>
      [] OTHER -> <<>>

\* AnthropicClient::send_chat_request, the closure of stream.map on one
\* chunk: the items of every "data: " line that parses.
RECURSIVE AnthropicLines(_)
AnthropicLines(lines) ==
    IF lines = <<>> THEN <<>>
    ELSE LET line == Head(lines)
             json_str == Tail(line)
             event == ParseStreamingEvent(json_str)
         IN (IF ~StartsWithData(line) THEN <<>>
             ELSE IF Trim(json_str) = <<DoneSentinel>>
             THEN <<OkItem(<<>>, None, TRUE, None)>>
             ELSE IF IsSome(event) THEN AnthropicEvent(Unwrap(event))
             ELSE <<>>)
            \o AnthropicLines(Tail(lines))

AnthropicDecode(chunk) == AnthropicLines(SplitLines(chunk))

---------------------------------------------------------------------------
(* FallbackToolHandler *)

\* The text of a response is a sequence of tokens: the two markers, white
\* space, a word, and JSON texts.
OpenTag == "<tool_call>"
CloseTag == "</tool_call>"
Word == "hello"
Acknowledgement == "I'll help you with that."
\* {"function": {"name": ..., "arguments": {}}} with the names f and g, the
\* same without arguments, and a text that is not JSON.
CallF == "{function f}"
CallG == "{function g}"
CallNoArguments == "{function f, no arguments}"
NotJson == "{function"
JsonTokens == {CallF, CallG, CallNoArguments}

\* str::len(): the bytes of a text.
TokenLen(token) ==
    CASE token = OpenTag -> 11
      [] token = CloseTag -> 12
      [] token \in {" ", NL} -> 1
      [] token = Word -> 5
      [] token = Acknowledgement -> 24
      [] token = NotJson -> 10
      [] token = CallNoArguments -> 25
      [] OTHER -> 40
RECURSIVE StrLen(_)
StrLen(s) == IF s = <<>> THEN 0 ELSE TokenLen(Head(s)) + StrLen(Tail(s))

\* cleaned_content.len() < 10
MinContentLen == 10

\* serde_json::from_str::<serde_json::Value>(json_content), then
\* function.name as a string and function.arguments.
FallbackParse(json_content) ==
    IF Len(Trim(json_content)) # 1 \/ Trim(json_content)[1] \notin JsonTokens THEN None
    ELSE LET token == Trim(json_content)[1]
         IN Some([name |-> IF token = CallG THEN Some("g") ELSE Some("f"),
                  arguments |-> IF token = CallNoArguments THEN None
                                ELSE Some(<<"{", "}">>)])

\* The first index of token in s from index from on, 0 when there is none.
IndexFrom(s, token, from) ==
    LET hits == {i \in from..Len(s) : s[i] = token}
    IN IF hits = {} THEN 0 ELSE CHOOSE i \in hits : \A j \in hits : i <= j

\* The matches of (?s)<tool_call>(.*?)</tool_call> in s from index from on:
\* leftmost, each as short as possible, not overlapping.
RECURSIVE Captures(_, _)
Captures(s, from) ==
    LET open == IndexFrom(s, OpenTag, from)
        close == IF open = 0 THEN 0 ELSE IndexFrom(s, CloseTag, open + 1)
    IN IF close = 0 THEN <<>>
       ELSE <<[open |-> open, close |-> close]>> \o Captures(s, close + 1)

\* As FallbackCalls, but of the first match only.
FallbackCallsOfFirst(content, caps) ==
    IF caps = <<>> THEN <<>>
    ELSE LET parsed == FallbackParse(Trim(SubSeq(content, Head(caps).open + 1,
                                                 Head(caps).close - 1)))
         IN IF IsSome(parsed) /\ IsSome(Unwrap(parsed).name)
               /\ IsSome(Unwrap(parsed).arguments)
            THEN <<ToolCall(None, Unwrap(Unwrap(parsed).name),
                            Unwrap(Unwrap(parsed).arguments))>>
            ELSE <<>>

\* The tool calls of the matches whose text parses and has a name and
\* arguments.
RECURSIVE FallbackCalls(_, _)
FallbackCalls(content, caps) ==
    IF caps = <<>> THEN <<>>
    ELSE LET json_str == SubSeq(content, Head(caps).open + 1, Head(caps).close - 1)
             parsed == FallbackParse(Trim(json_str))
         IN (IF IsSome(parsed) /\ IsSome(Unwrap(parsed).name)
                /\ IsSome(Unwrap(parsed).arguments)
             THEN <<ToolCall(None, Unwrap(Unwrap(parsed).name),
                             Unwrap(Unwrap(parsed).arguments))>>
             ELSE <<>>)
            \o FallbackCalls(content, Tail(caps))

parse_fallback_tool_calls(content) ==
    LET all_tool_calls == FallbackCalls(content, Captures(content, 1))
    IN IF all_tool_calls # <<>> THEN Some(all_tool_calls) ELSE None

\* xml_regex.replace_all(content, ""): content without the matches.
RECURSIVE ReplaceAll(_, _, _)
ReplaceAll(content, caps, from) ==
    IF caps = <<>> THEN SubSeq(content, from, Len(content))
    ELSE SubSeq(content, from, Head(caps).open - 1)
         \o ReplaceAll(content, Tail(caps), Head(caps).close + 1)

\* incomplete_regex.replace_all(content, ""), the regex being <tool_call>\s*$:
\* content without an opening marker that only white space follows.
ReplaceIncomplete(content) ==
    LET hits == {i \in 1..Len(content) :
                    /\ content[i] = OpenTag
                    /\ \A k \in (i + 1)..Len(content) : content[k] \in {" ", NL}}
    IN IF hits = {} THEN content
       ELSE SubSeq(content, 1, (CHOOSE i \in hits : TRUE) - 1)

\* As FinalContent, but the text is kept however short it is.
FinalContentKept(cleaned_content) == cleaned_content

\* final_content
FinalContent(cleaned_content) ==
    IF StrLen(cleaned_content) < MinContentLen
    THEN <<Acknowledgement>> ELSE cleaned_content

process_fallback_response(content) ==
    LET tool_calls == parse_fallback_tool_calls(content)
    IN IF IsSome(tool_calls)
       THEN [text |-> FinalContent(Trim(ReplaceAll(content, Captures(content, 1), 1))),
             tool_calls |-> tool_calls]
       ELSE [text |-> Trim(ReplaceIncomplete(content)), tool_calls |-> None]

---------------------------------------------------------------------------
(* OllamaClient *)

\* What supports_tool_calls answers: Ok(true), Ok(false) or Err.
ProbeAnswers == {"native", "unsupported", "error"}

OllamaClientNew == [kind |-> "ollama", tools |-> <<>>, fallback_mode |-> FALSE]

\* As OllamaAddToolTo, but the probe is made for every tool added.
OllamaAddToolProbing(self, tool, probe) ==
    LET pushed == [self EXCEPT !.tools = Append(@, tool)]
    IN IF probe = "error" THEN [self |-> pushed, ret |-> "Err"]
       ELSE [self |-> [pushed EXCEPT !.fallback_mode = (probe = "unsupported")], ret |-> "Ok"]

\* add_tool(tool): the client afterwards and the value returned; the probe
\* is made for the first tool only, and its error is returned after the push.
OllamaAddToolTo(self, tool, probe) ==
    LET pushed == [self EXCEPT !.tools = Append(@, tool)]
    IN IF Len(pushed.tools) = 1
       THEN IF probe = "error" THEN [self |-> pushed, ret |-> "Err"]
            ELSE IF probe = "unsupported"
            THEN [self |-> [pushed EXCEPT !.fallback_mode = TRUE], ret |-> "Ok"]
            ELSE [self |-> pushed, ret |-> "Ok"]
       ELSE [self |-> pushed, ret |-> "Ok"]

\* Message { role, content, .. }
Message(role, content) == [role |-> role, content |-> content]

\* FallbackToolHandler::generate_tool_context(tools): the grammar of the
\* markers, then a line for every tool, then the closing words.
ContextHead == "You have access to the following tools."
ContextTail == "When using tools, wrap the JSON in <tool_call></tool_call> tags."
generate_tool_context(tools) ==
    IF tools = <<>> THEN <<>> ELSE <<ContextHead>> \o tools \o <<ContextTail>>

SystemPrompt == "You are a helpful assistant."

\* As OllamaMessagesToSend, but the context goes to every system message.
OllamaMessagesToEverySystem(self, messages) ==
    IF self.fallback_mode /\ self.tools # <<>>
    THEN IF \E i \in 1..Len(messages) : messages[i].role = "system"
         THEN [i \in 1..Len(messages) |->
                  IF messages[i].role = "system"
                  THEN [messages[i] EXCEPT !.content = @ \o generate_tool_context(self.tools)]
                  ELSE messages[i]]
         ELSE <<Message("system", <<SystemPrompt>> \o generate_tool_context(self.tools))>>
              \o messages
    ELSE messages

\* messages_to_send: in fallback mode with tools, the copy of the messages
\* with the tool context in its first system message.
OllamaMessagesToSend(self, messages) ==
    LET tool_context == generate_tool_context(self.tools)
        systems == {i \in 1..Len(messages) : messages[i].role = "system"}
        first == CHOOSE i \in systems : \A j \in systems : i <= j
    IN IF self.fallback_mode /\ self.tools # <<>>
       THEN IF systems # {}
            THEN [messages EXCEPT ![first].content = @ \o tool_context]
            ELSE <<Message("system", <<SystemPrompt>> \o tool_context)>> \o messages
       ELSE messages

\* request_body of send_chat_request_stream_with_options, its "messages" and
\* its "tools".
OllamaRequestBody(self, messages) ==
    [messages |-> OllamaMessagesToSend(self, messages),
     tools |-> IF ~self.fallback_mode /\ self.tools # <<>> THEN Some(self.tools) ELSE None]

\* As OllamaProcessFallback, but the mode is not looked at.
OllamaProcessFallbackAlways(self, content) == process_fallback_response(content)

\* OllamaClient::process_fallback_response(content)
OllamaProcessFallback(self, content) ==
    IF ~self.fallback_mode THEN [text |-> content, tool_calls |-> None]
    ELSE process_fallback_response(content)

---------------------------------------------------------------------------
(* OpenRouterClient *)

OpenRouterClientNew == [kind |-> "openrouter", tools |-> <<>>]

\* is_fallback_mode(): without tools false; with tools the probe is made, and
\* its error counts as "no tool support".
OpenRouterIsFallback(self, probe) ==
    IF self.tools = <<>> THEN FALSE ELSE ~(probe = "native")

\* OpenRouterClient::process_fallback_response(content)
OpenRouterProcessFallback(self, content, probe) ==
    IF ~OpenRouterIsFallback(self, probe) THEN [text |-> content, tool_calls |-> None]
    ELSE process_fallback_response(content)

---------------------------------------------------------------------------
(* OpenAIClient: the messages of tool results *)

\* str::splitn(n, ':'): the pieces between the first n - 1 colons.
RECURSIVE SplitN(_, _)
SplitN(s, n) ==
    LET colons == {i \in 1..Len(s) : s[i] = ":"}
        i == CHOOSE k \in colons : \A j \in colons : k <= j
    IN IF n <= 1 \/ colons = {} THEN <<s>>
       ELSE <<SubSeq(s, 1, i - 1)>> \o SplitN(SubSeq(s, i + 1, Len(s)), n - 1)

\* handle_tool_calls: a message for every call whose tool the client has; a
\* tool is its name and what its function returns.
RECURSIVE handle_tool_calls(_, _)
handle_tool_calls(self, tool_calls) ==
    IF tool_calls = <<>> THEN <<>>
    ELSE LET tool_call == Head(tool_calls)
             found == {i \in 1..Len(self.tools) : self.tools[i].name = tool_call.name}
             tool == self.tools[CHOOSE i \in found : \A j \in found : i <= j]
             tool_id == IF IsSome(tool_call.id) THEN Unwrap(tool_call.id) ELSE <<"unknown">>
         IN (IF found = {} THEN <<>>
             ELSE <<Message("tool", <<"TOOL_RESULT", ":">> \o tool_id \o <<":">>
                                    \o tool.result)>>)
            \o handle_tool_calls(self, Tail(tool_calls))

\* convert_to_openai_message(message), for a message of the role "tool".
convert_to_openai_message(message) ==
    LET parts == SplitN(message.content, 3)
        encoded == /\ Len(message.content) >= 2
                   /\ SubSeq(message.content, 1, 2) = <<"TOOL_RESULT", ":">>
    IN IF encoded /\ Len(parts) = 3
       THEN [role |-> message.role, content |-> parts[3], tool_call_id |-> Some(parts[2])]
       ELSE [role |-> message.role, content |-> message.content, tool_call_id |-> None]

---------------------------------------------------------------------------
(* StreamingXmlFilter *)

StreamingXmlFilterNew == [kind |-> "filter", inside_tool_call |-> FALSE]

\* process_chunk(content): the filter afterwards and the text returned.
process_chunk(self, content) ==
    IF content = <<>> THEN [self |-> self, result |-> content]
    ELSE IF OpenTag \in Range(content)
    THEN [self |-> [self EXCEPT !.inside_tool_call = TRUE], result |-> <<>>]
    ELSE IF CloseTag \in Range(content)
    THEN [self |-> [self EXCEPT !.inside_tool_call = FALSE], result |-> <<>>]
    ELSE IF self.inside_tool_call THEN [self |-> self, result |-> <<>>]
    ELSE [self |-> self, result |-> content]

---------------------------------------------------------------------------
(* The stream of one request *)

Providers == {"openai", "openrouter", "ollama", "anthropic"}

\* No function is called on its own while a stream is decoded.
NoCall == [fn |-> "-", arg |-> <<>>]
NoClient == [kind |-> "-"]
streamVars == <<provider, script, wire, sent, transport, openai, openrouter, events, items,
                lastPoll, streams>>

\* The payloads: up to MaxRecs records of one family.
Families == {{"Ta", "Tb", "Done"}, {"Ta", "Tb", "Bad"}, {"Ta", "Bad", "Done"},
             {"F0", "F1", "Done"}, {"F0", "Fy", "F1"}, {"F0", "G1", "F1"},
             {"F0", "Fw", "F1"}, {"Fc", "Fw", "Done"},
             {"Fin", "Us", "Done"}, {"Ta", "Us", "Done"}, {"Ta", "Ca", "Ea"},
             {"Fi", "Fn", "F1"}, {"F2", "Ta", "Done"}}
OllamaFamilies == {{"Oa", "Ob", "Od"}, {"Ot", "Ou", "Od"}}
AnthropicFamilies == {{"Aa", "Ab", "Astop"}, {"Aa", "Aping", "Done"},
                      {"Atool", "Aj1", "Aj2"}, {"Atool", "Aa", "Astop"}}
FamiliesOf(p) ==
    CASE p = "ollama" -> OllamaFamilies
      [] p = "anthropic" -> AnthropicFamilies
      [] OTHER -> Families
Scripts(p) == UNION {[1..n -> fam] : n \in 0..MaxRecs, fam \in FamiliesOf(p)}

Init ==
    /\ provider \in Providers
    /\ script \in Scripts(provider)
    /\ wire = Payload(script)
    /\ sent = 0
    /\ transport = "open"
    /\ openai = OpenAINew
    /\ openrouter = OpenRouterNew
    /\ events = <<>>
    /\ items = <<>>
    /\ lastPoll = "-"
    /\ called = NoCall
    /\ returned = None
    /\ client = NoClient /\ request = None /\ modes = {}
    /\ streams = <<>>

\* The next n bytes of the wire, as one chunk of the transport.
Chunk(n) == SubSeq(wire, sent + 1, sent + n)

Yield(ret) ==
    /\ items' = IF IsSome(ret) THEN Append(items, Unwrap(ret)) ELSE items
    /\ lastPoll' = IF IsSome(ret) THEN "item" ELSE "pending"

\* poll_next: the transport hands over a chunk.
OpenAIPollChunk ==
    /\ provider = "openai" /\ transport = "open" /\ ~openai.done
    /\ \E n \in 1..(Len(wire) - sent) :
          LET first == OpenAIOnChunk(openai, Chunk(n), FirstOrder)
          IN \E ord \in OrdersOf(first.self) :
                LET r == IF ord = FirstOrder THEN first
                         ELSE OpenAIOnChunk(openai, Chunk(n), ord)
                IN /\ openai' = r.self
                   /\ Yield(r.ret)
                   /\ sent' = sent + n
    /\ UNCHANGED <<callVars, streams, provider, script, wire, transport, openrouter, events>>

\* poll_next: the transport reports the end of the stream (the server may
\* close the connection before everything is written).
OpenAIPollEnd ==
    /\ provider = "openai" /\ transport # "closed" /\ ~openai.done
    /\ \E ord \in OrdersOf(openai) :
          LET r == OpenAIOnEnd(openai, ord)
          IN /\ openai' = r.self
             /\ Yield(r.ret)
    /\ transport' = "closed"
    /\ UNCHANGED <<callVars, streams, provider, script, wire, sent, openrouter, events>>

\* poll_next: the transport reports an error.
OpenAIPollError ==
    /\ provider = "openai" /\ transport = "open" /\ ~openai.done
    /\ LET r == OpenAIOnError(openai)
       IN /\ openai' = r.self
          /\ Yield(r.ret)
    /\ transport' = "failed"
    /\ UNCHANGED <<callVars, streams, provider, script, wire, sent, openrouter, events>>

\* poll_next after the terminal item.
OpenAIPollDone ==
    /\ provider = "openai" /\ openai.done
    /\ lastPoll' = "none"
    /\ UNCHANGED <<callVars, streams, provider, script, wire, sent, transport, openai, openrouter,
                   events, items>>

\* chat_completion_stream: the transport hands over a chunk; its events go
\* through send_chat_request to the consumer.
OpenRouterChunk ==
    /\ provider = "openrouter" /\ transport = "open"
    /\ \E n \in 1..(Len(wire) - sent) :
          LET r == OpenRouterProcessChunk(openrouter, Chunk(n))
          IN \E estimate \in EstimatesFor(r.events) :
                /\ openrouter' = r.self
                /\ events' = events \o r.events
                /\ items' = items \o OpenRouterItems(r.events, estimate)
                /\ lastPoll' = IF r.events # <<>> THEN "item" ELSE "pending"
                /\ sent' = sent + n
    /\ UNCHANGED <<callVars, streams, provider, script, wire, transport, openai>>

\* chat_completion_stream: the transport reports an error.
OpenRouterError ==
    /\ provider = "openrouter" /\ transport = "open"
    /\ events' = Append(events, ContentEvent(<<"Network error">>))
    /\ items' = Append(items, OpenRouterItem(ContentEvent(<<"Network error">>), None))
    /\ lastPoll' = "item"
    /\ transport' = "failed"
    /\ UNCHANGED <<callVars, streams, provider, script, wire, sent, openai, openrouter>>

\* The transport reports the end of the stream: so does the event stream.
OpenRouterEnd ==
    /\ provider = "openrouter" /\ transport # "closed"
    /\ transport' = "closed"
    /\ lastPoll' = "none"
    /\ UNCHANGED <<callVars, streams, provider, script, wire, sent, openai, openrouter, events, items>>

NextOpenRouter == OpenRouterChunk \/ OpenRouterError \/ OpenRouterEnd

\* The Ollama or Anthropic stream: the transport hands over a chunk, and the
\* items decoded from it go to the consumer.
LinesChunk ==
    /\ provider \in {"ollama", "anthropic"} /\ transport = "open"
    /\ \E n \in 1..(Len(wire) - sent) :
          LET decoded == IF provider = "ollama" THEN OllamaDecode(Chunk(n))
                         ELSE AnthropicDecode(Chunk(n))
          IN /\ items' = items \o decoded
             /\ lastPoll' = IF decoded # <<>> THEN "item" ELSE "pending"
             /\ sent' = sent + n
    /\ UNCHANGED <<callVars, streams, provider, script, wire, transport, openai, openrouter, events>>

\* The transport reports an error: an Err item.
LinesError ==
    /\ provider \in {"ollama", "anthropic"} /\ transport = "open"
    /\ items' = Append(items, ErrItem("Stream error"))
    /\ lastPoll' = "item"
    /\ transport' = "failed"
    /\ UNCHANGED <<callVars, streams, provider, script, wire, sent, openai, openrouter, events>>

\* The transport reports the end of the stream: so does the item stream.
LinesEnd ==
    /\ provider \in {"ollama", "anthropic"} /\ transport # "closed"
    /\ transport' = "closed"
    /\ lastPoll' = "none"
    /\ UNCHANGED <<callVars, streams, provider, script, wire, sent, openai, openrouter, events, items>>

\* while let Some(item) = stream.next().await of the collectors
\* send_chat_request_with_options and send_chat_request_no_stream: the text
\* and the tool calls kept so far, and what is returned.
RECURSIVE Collect(_, _, _)
Collect(its, full_response, tool_calls) ==
    IF its = <<>> THEN [ok |-> TRUE, text |-> full_response, tool_calls |-> tool_calls]
    ELSE LET item == Head(its)
             text == full_response \o item.content
             calls == IF IsSome(item.tool_calls) THEN item.tool_calls ELSE tool_calls
         IN IF ~item.ok THEN [ok |-> FALSE, text |-> <<>>, tool_calls |-> None]
            ELSE IF item.done THEN [ok |-> TRUE, text |-> text, tool_calls |-> calls]
            ELSE Collect(Tail(its), text, calls)

\* The collector returns: at an item with done = true or an Err item, or at
\* the end of the stream.
LinesCollected ==
    /\ provider \in {"ollama", "anthropic"} /\ called = NoCall
    /\ \/ transport # "open"
       \/ \E i \in 1..Len(items) : items[i].done \/ ~items[i].ok
    /\ called' = [fn |-> "send_chat_request_no_stream", arg |-> <<>>]
    /\ returned' = Some(Collect(items, <<>>, None))
    /\ UNCHANGED <<sessionVars, streamVars>>

NextLines == LinesChunk \/ LinesError \/ LinesEnd \/ LinesCollected

\* The longest response text, in tokens.
MaxTokens == 6

\* The response texts: up to MaxTokens tokens of one family.
TokenFamilies == {{OpenTag, CloseTag, CallF, CallG},
                  {OpenTag, CloseTag, CallF, Word},
                  {OpenTag, CloseTag, CallF, " "},
                  {OpenTag, CloseTag, CallF, NotJson},
                  {OpenTag, CloseTag, CallNoArguments, Word},
                  {OpenTag, " ", Word, CallF}}
Contents == UNION {[1..n -> fam] : n \in 0..MaxTokens, fam \in TokenFamilies}

\* No stream: a function of the library is called on its own.
InitCall ==
    /\ provider = "-"
    /\ script = <<>> /\ wire = <<>> /\ sent = 0 /\ transport = "closed"
    /\ openai = OpenAINew /\ openrouter = OpenRouterNew
    /\ events = <<>> /\ items = <<>> /\ lastPoll = "-"
    /\ returned = None /\ request = None /\ modes = {}

InitFallback ==
    /\ InitCall /\ client = NoClient /\ streams = <<>>
    /\ \E content \in Contents :
          called = [fn |-> "process_fallback_response", arg |-> content]

\* FallbackToolHandler::process_fallback_response(content)
ProcessFallbackResponse ==
    /\ client = NoClient
    /\ called.fn = "process_fallback_response" /\ returned = None
    /\ returned' = Some(process_fallback_response(called.arg))
    /\ UNCHANGED <<called, sessionVars, streamVars>>

NextFallback == ProcessFallbackResponse

\* The most tools a client is given.
MaxTools == 2
Tools == {"search", "weather"}

\* The messages of a chat request.
MessageLists ==
    {<<>>,
     <<Message("user", <<"hi">>)>>,
     <<Message("system", <<"be brief">>), Message("user", <<"hi">>)>>,
     <<Message("user", <<"hi">>), Message("system", <<"be brief">>),
       Message("system", <<"be kind">>)>>}

\* The response texts a session hands to process_fallback_response.
SessionContents ==
    {<<Word>>, <<OpenTag, CallF, CloseTag>>, <<Word, OpenTag, CallF, CloseTag, Word, Word>>,
     <<Word, OpenTag>>}

\* A session of a client: no stream is modelled with it.
InitOllamaClient ==
    /\ InitCall /\ called = NoCall /\ streams = <<>>
    /\ client = OllamaClientNew

\* add_tool(tool)
OllamaAddTool ==
    /\ client.kind = "ollama" /\ Len(client.tools) < MaxTools
    /\ \E tool \in Tools, probe \in ProbeAnswers :
          LET r == OllamaAddToolTo(client, tool, probe)
          IN /\ client' = r.self
             /\ called' = [fn |-> "add_tool", arg |-> <<tool>>]
             /\ returned' = Some(r.ret)
    /\ UNCHANGED <<request, modes, streamVars>>

\* send_chat_request_stream_with_options(messages, None), up to the request.
OllamaSendChatRequest ==
    /\ client.kind = "ollama"
    /\ \E messages \in MessageLists :
          /\ called' = [fn |-> "send_chat_request_stream_with_options", arg |-> messages]
          /\ request' = Some(OllamaRequestBody(client, messages))
    /\ returned' = None
    /\ UNCHANGED <<client, modes, streamVars>>

\* process_fallback_response(content)
OllamaProcessFallbackResponse ==
    /\ client.kind = "ollama"
    /\ \E content \in SessionContents :
          /\ called' = [fn |-> "process_fallback_response", arg |-> content]
          /\ returned' = Some(OllamaProcessFallback(client, content))
    /\ UNCHANGED <<client, request, modes, streamVars>>

NextOllamaClient == OllamaAddTool \/ OllamaSendChatRequest \/ OllamaProcessFallbackResponse

InitOpenRouterClient ==
    /\ InitCall /\ called = NoCall /\ streams = <<>>
    /\ client = OpenRouterClientNew

\* add_tool(tool)
OpenRouterAddTool ==
    /\ client.kind = "openrouter" /\ Len(client.tools) < MaxTools
    /\ \E tool \in Tools :
          /\ client' = [client EXCEPT !.tools = Append(@, tool)]
          /\ called' = [fn |-> "add_tool", arg |-> <<tool>>]
    /\ returned' = Some("Ok")
    /\ UNCHANGED <<request, modes, streamVars>>

\* is_fallback_mode(); modes keeps the answers given with a tool registered.
OpenRouterIsFallbackMode ==
    /\ client.kind = "openrouter"
    /\ \E probe \in ProbeAnswers :
          LET mode == OpenRouterIsFallback(client, probe)
          IN /\ called' = [fn |-> "is_fallback_mode", arg |-> <<>>]
             /\ returned' = Some(mode)
             /\ modes' = IF client.tools = <<>> THEN modes ELSE modes \cup {mode}
    /\ UNCHANGED <<client, request, streamVars>>

\* process_fallback_response(content)
OpenRouterProcessFallbackResponse ==
    /\ client.kind = "openrouter"
    /\ \E content \in SessionContents, probe \in ProbeAnswers :
          /\ called' = [fn |-> "process_fallback_response", arg |-> content]
          /\ returned' = Some(OpenRouterProcessFallback(client, content, probe))
          /\ modes' = IF client.tools = <<>> THEN modes
                      ELSE modes \cup {OpenRouterIsFallback(client, probe)}
    /\ UNCHANGED <<client, request, streamVars>>

NextOpenRouterClient ==
    OpenRouterAddTool \/ OpenRouterIsFallbackMode \/ OpenRouterProcessFallbackResponse

\* Two streams of one client, decoded side by side.  Each stream owns the
\* processor made for it; a chunk of the history carries the place it has in
\* the order of all the chunks handed over.
MaxLive == 1
LiveRecs == {"Ta", "F0", "F1", "Done"}
LiveScripts == UNION {[1..n -> LiveRecs] : n \in 0..MaxLive}
CutSizes == {3}

\* OpenAIStreamProcessor::new, OpenRouterStreamProcessor::new
NewProcessor(p) == IF p = "openai" THEN OpenAINew ELSE OpenRouterNew

NewStream(p, rs) ==
    [provider |-> p, wire |-> Payload(rs), sent |-> 0, processor |-> NewProcessor(p),
     out |-> <<>>, chunks |-> <<>>]

\* What the stream gives for one chunk: the item of poll_next, or the events
\* of process_chunk.  The records of LiveRecs are all of position 0, so the
\* order of the entries of accumulated_tool_calls plays no part.
StreamDecode(p, processor, chunk) ==
    IF p = "openai"
    THEN IF processor.done THEN [self |-> processor, out |-> <<>>]
         ELSE LET r == OpenAIOnChunk(processor, chunk, FirstOrder)
              IN [self |-> r.self,
                  out |-> IF IsSome(r.ret) THEN <<Unwrap(r.ret)>> ELSE <<>>]
    ELSE LET r == OpenRouterProcessChunk(processor, chunk)
         IN [self |-> r.self, out |-> r.events]

\* As ProcessorOf, were one processor shared by the streams.
ProcessorShared(ss, s) == ss[1].processor

\* The processor the closure of stream s holds.
ProcessorOf(ss, s) == ss[s].processor

InitStreams ==
    /\ InitCall /\ called = NoCall /\ client = NoClient
    /\ \E p \in {"openai", "openrouter"}, r1 \in LiveScripts, r2 \in LiveScripts :
          streams = <<NewStream(p, r1), NewStream(p, r2)>>

\* The transport of stream s hands over a chunk.
StreamsChunk ==
    /\ streams # <<>>
    /\ \E s \in DOMAIN streams :
          LET st == streams[s]
              left == Len(st.wire) - st.sent
              at == Len(streams[1].chunks) + Len(streams[2].chunks) + 1
          IN \E n \in {left} \cup {k \in CutSizes : k < left} :
                LET chunk == SubSeq(st.wire, st.sent + 1, st.sent + n)
                    r == StreamDecode(st.provider, ProcessorOf(streams, s), chunk)
                IN /\ n > 0
                   /\ streams' = [streams EXCEPT ![s] =
                                     [st EXCEPT !.sent = @ + n,
                                                !.processor = r.self,
                                                !.out = @ \o r.out,
                                                !.chunks = Append(@, [at |-> at,
                                                                      bytes |-> chunk])]]
    /\ UNCHANGED <<callVars, provider, script, wire, sent, transport, openai, openrouter,
                   events, items, lastPoll>>

NextStreams == StreamsChunk

\* The longest id of a tool call and the longest result of a tool, in
\* characters.
MaxText == 2
Texts(c) == UNION {[1..n -> {c, ":"}] : n \in 0..MaxText}

\* A client with the tool "search", whose function returns some text.
InitToolResult ==
    /\ InitCall /\ called = NoCall /\ streams = <<>>
    /\ \E result \in Texts("r") :
          client = [kind |-> "openai", tools |-> <<[name |-> "search", result |-> result]>>]

\* handle_tool_calls(tool_calls), for one call.
OpenAIHandleToolCalls ==
    /\ client.kind = "openai"
    /\ \E id \in {None} \cup {Some(t) : t \in Texts("c")}, name \in {"search", "unknown"} :
          LET tool_calls == <<ToolCall(id, name, <<"{", "}">>)>>
          IN /\ called' = [fn |-> "handle_tool_calls", arg |-> tool_calls]
             /\ returned' = Some(handle_tool_calls(client, tool_calls))
    /\ request' = None
    /\ UNCHANGED <<client, modes, streamVars>>

\* send_chat_request: the message of the tool result goes into the request.
OpenAISendToolResult ==
    /\ client.kind = "openai" /\ called.fn = "handle_tool_calls"
    /\ IsSome(returned) /\ Unwrap(returned) # <<>> /\ request = None
    /\ request' = Some(convert_to_openai_message(Unwrap(returned)[1]))
    /\ UNCHANGED <<called, returned, client, modes, streamVars>>

NextToolResult == OpenAIHandleToolCalls \/ OpenAISendToolResult

\* The longest text given to the filter, in tokens: the markers and a word.
MaxFiltered == 4
FilterTexts == UNION {[1..n -> {OpenTag, CloseTag, Word}] : n \in 0..MaxFiltered}

\* A new filter, and the text that will be given to it in chunks.
InitFilter ==
    /\ provider = "filter"
    /\ script = <<>> /\ wire \in FilterTexts /\ sent = 0 /\ transport = "open"
    /\ openai = OpenAINew /\ openrouter = OpenRouterNew
    /\ events = <<>> /\ items = <<>> /\ lastPoll = "-"
    /\ called = NoCall /\ returned = None /\ request = None /\ modes = {}
    /\ streams = <<>>
    /\ client = StreamingXmlFilterNew

\* process_chunk(content) on the next n tokens; items keeps what was returned.
FilterProcessChunk ==
    /\ provider = "filter"
    /\ \E n \in 1..(Len(wire) - sent) :
          LET r == process_chunk(client, Chunk(n))
          IN /\ client' = r.self
             /\ called' = [fn |-> "process_chunk", arg |-> Chunk(n)]
             /\ returned' = Some(r.result)
             /\ items' = Append(items, r.result)
             /\ sent' = sent + n
    /\ UNCHANGED <<request, modes, streams, provider, script, wire, transport, openai,
                   openrouter, events, lastPoll>>

NextOpenAI == OpenAIPollChunk \/ OpenAIPollEnd \/ OpenAIPollError \/ OpenAIPollDone

Next == NextOpenAI \/ NextOpenRouter \/ NextLines \/ NextFallback \/ NextOllamaClient
        \/ NextOpenRouterClient \/ NextStreams \/ NextToolResult \/ FilterProcessChunk

Spec ==
    /\ \/ Init \/ InitFallback \/ InitOllamaClient \/ InitOpenRouterClient
       \/ InitStreams \/ InitToolResult \/ InitFilter
    /\ [][Next]_vars

\* One client alone.
InitOpenAI == Init /\ provider = "openai"
SpecOpenAI == InitOpenAI /\ [][NextOpenAI]_vars

InitOpenRouter == Init /\ provider = "openrouter"
SpecOpenRouter == InitOpenRouter /\ [][NextOpenRouter]_vars

\* The two processors of blank-line-delimited streams.
InitSse == Init /\ provider \in {"openai", "openrouter"}
SpecSse == InitSse /\ [][NextOpenAI \/ NextOpenRouter]_vars

\* The two decoders without a buffer.
InitLines == Init /\ provider \in {"ollama", "anthropic"}
SpecLines == InitLines /\ [][NextLines]_vars

\* The fallback tool handler.
SpecFallback == InitFallback /\ [][NextFallback]_vars

\* A session of the Ollama client.
SpecOllamaClient == InitOllamaClient /\ [][NextOllamaClient]_vars

\* A session of the OpenRouter client.
SpecOpenRouterClient == InitOpenRouterClient /\ [][NextOpenRouterClient]_vars

\* Two streams side by side.
SpecStreams == InitStreams /\ [][NextStreams]_vars

\* The tool results of the OpenAI client.
SpecToolResult == InitToolResult /\ [][NextToolResult]_vars

\* The filter of the streamed text.
SpecFilter == InitFilter /\ [][FilterProcessChunk]_vars

---------------------------------------------------------------------------
(* Claims *)

DoneItems(its) == {i \in 1..Len(its) : its[i].ok /\ its[i].done}

\* The content of the items, concatenated.
RECURSIVE ContentOf(_)
ContentOf(its) ==
    IF its = <<>> THEN <<>> ELSE Head(its).content \o ContentOf(Tail(its))

\* The whole payload has been handed over.
AllSent == sent = Len(wire)

\* The transport never failed.
NoTransportError == \A i \in 1..Len(items) : items[i].err # "Stream error"

OpenAIOneShot(payload, ord) ==
    LET r == OpenAIOnChunk(OpenAINew, payload, ord)
        first == IF IsSome(r.ret) THEN <<Unwrap(r.ret)>> ELSE <<>>
    IN IF r.self.done THEN first
       ELSE first \o <<Unwrap(OpenAIOnEnd(r.self, ord).ret)>>

\* C4: for a payload ending in [DONE], however it is cut into chunks, the
\* content of all items, and the tool calls and the usage of the terminal
\* item, are those of the payload handed over as one chunk.
C4_ChunkInvariance ==
    (/\ provider = "openai"
     /\ script # <<>> /\ Last(script) = "Done"
     /\ AllSent /\ openai.done /\ NoTransportError)
    => \E ord \in Orders :
          LET whole == OpenAIOneShot(wire, ord)
          IN /\ ContentOf(items) = ContentOf(whole)
             /\ Last(items).tool_calls = Last(whole).tool_calls
             /\ Last(items).usage = Last(whole).usage

\* C9: a valid text record, a malformed record, a valid text record: the
\* processor yields the text of both valid records in order, and no Err item.
C9_MalformedTolerance ==
    (/\ provider = "openai"
     /\ Len(script) = 3
     /\ script[1] \in {"Ta", "Tb"} /\ script[2] = "Bad" /\ script[3] \in {"Ta", "Tb"}
     /\ AllSent /\ openai.done /\ NoTransportError)
    => /\ ContentOf(items)
              = Unwrap(Unwrap(DocOf(script[1]).choices[1].delta).content)
                \o Unwrap(Unwrap(DocOf(script[3]).choices[1].delta).content)
       /\ \A i \in 1..Len(items) : items[i].ok

\* C10: however the stream ends, the terminal item carries, for every position
\* whose accumulated argument text parses as JSON, a call with the parsed
\* arguments.
C10_DrainAtTermination ==
    (provider = "openai" /\ openai.done /\ NoTransportError)
    => \A i \in DOMAIN openai.accumulating_tool_args :
          IsSome(ParseValue(openai.accumulating_tool_args[i]))
          => /\ IsSome(Last(items).tool_calls)
             /\ \E call \in Range(Unwrap(Last(items).tool_calls)) :
                   call.arguments = Unwrap(ParseValue(openai.accumulating_tool_args[i]))

---------------------------------------------------------------------------
(* Claims about the OpenRouter processor *)

NoNetworkError == \A i \in 1..Len(events) : events[i].content # <<"Network error">>

\* Everything handed over has been framed and decoded.
OpenRouterDecoded == AllSent /\ openrouter.buffer = <<>>

ToolCallEvents(evs) == SelectSeq(evs, LAMBDA e : e.kind = "ToolCall")

\* C2: at most one Done event is emitted, and no event after it.
C2_SingleDone ==
    (provider = "openrouter" /\ NoNetworkError)
    => \A i \in 1..Len(events) : events[i].kind = "Done" => i = Len(events)

\* C3: however the payload is cut into chunks, the events of the successive
\* process_chunk calls, concatenated, are the events of one process_chunk call
\* on the whole payload.
C3_ChunkInvariance ==
    (provider = "openrouter" /\ AllSent /\ NoNetworkError)
    => events = OpenRouterProcessChunk(OpenRouterNew, wire).events

\* The fragments of position 0: the first has the id and the name, the
\* others have arguments only.
OneCallScript ==
    /\ script # <<>>
    /\ script[1] \in {"F0", "Fc"}
    /\ \A k \in 2..Len(script) : script[k] \in {"F1", "Fw"}

FragmentOf(r) == Unwrap(Unwrap(DocOf(r).choices[1].delta).tool_calls)[1]

\* The argument text of the first n fragments, concatenated.
RECURSIVE ArgumentText(_)
ArgumentText(n) ==
    IF n = 0 THEN <<>>
    ELSE ArgumentText(n - 1) \o Unwrap(FragmentOf(script[n]).arguments)

\* The whole text fed as a single fragment, with the id and the name.
SingleFragmentEvents ==
    OpenRouterToolCalls([self |-> OpenRouterNew, events |-> <<>>],
                        <<Fragment(0, FragmentOf(script[1]).id,
                                   FragmentOf(script[1]).name,
                                   Some(ArgumentText(Len(script))))>>, 0).events

\* The fragment that completes the text has been decoded.
C6_Outcome ==
    IF OpenRouterDecoded
    THEN /\ ToolCallEvents(events)
              = <<ToolCallEvent(Unwrap(FragmentOf(script[1]).id),
                                Unwrap(FragmentOf(script[1]).name),
                                ArgumentText(Len(script)))>>
         /\ ToolCallEvents(events) = ToolCallEvents(SingleFragmentEvents)
    ELSE ToolCallEvents(events) = <<>>

\* C6 as stated: fragments of one position whose concatenation is a JSON
\* object yield exactly one ToolCall event, emitted by the fragment that
\* completes the text, with the concatenation as arguments, the ToolCall of
\* the text fed as a single fragment.
C6_ReassemblyAsStated ==
    (/\ provider = "openrouter" /\ NoNetworkError
     /\ OneCallScript
     /\ IsSome(ParseValue(ArgumentText(Len(script)))))
    => C6_Outcome

\* C6, amended: the same, when the text does not parse before its last
\* fragment.
C6_Reassembly ==
    (/\ provider = "openrouter" /\ NoNetworkError
     /\ OneCallScript
     /\ IsSome(ParseValue(ArgumentText(Len(script))))
     /\ \A n \in 1..(Len(script) - 1) : ~IsSome(ParseValue(ArgumentText(n))))
    => C6_Outcome

C6_Witness ==
    /\ provider = "openrouter"
    /\ script = <<"F0", "Fw", "F1">>
    /\ OpenRouterDecoded
    /\ Len(ToolCallEvents(events)) = 1

---------------------------------------------------------------------------
(* Claims about the tool-call accumulators of both processors *)

\* The tool calls delivered to the consumer, in order.
RECURSIVE CallsOf(_)
CallsOf(its) ==
    IF its = <<>> THEN <<>>
    ELSE (IF IsSome(Head(its).tool_calls) THEN Unwrap(Head(its).tool_calls) ELSE <<>>)
         \o CallsOf(Tail(its))

\* The stream has been decoded to its end.
Finished ==
    /\ AllSent
    /\ provider = "openai" => openai.done
    /\ provider = "openrouter" => openrouter.buffer = <<>>

NoFailure == NoTransportError /\ NoNetworkError

\* The first record of the script whose fragment has an id.
FirstWithId ==
    CHOOSE k \in 1..Len(script) :
        /\ IsSome(FragmentOf(script[k]).id)
        /\ \A j \in 1..(k - 1) : ~IsSome(FragmentOf(script[j]).id)

\* C7: the fragments of one position; the id and the name of a delivered call
\* are those of the first fragment that had them, whatever id and name later
\* fragments of the position carry.
C7_FirstWins ==
    (/\ provider \in {"openai", "openrouter"}
     /\ Range(script) \subseteq {"F0", "Fy", "F1"}
     /\ script # <<>> /\ script[1] = "F0"
     /\ NoFailure)
    => \A call \in Range(CallsOf(items)) :
          /\ call.id = FragmentOf(script[FirstWithId]).id
          /\ call.name = Unwrap(FragmentOf(script[FirstWithId]).name)

\* The argument text of the fragments the server gave position pos, in order.
RECURSIVE ArgumentsAt(_, _)
ArgumentsAt(pos, n) ==
    IF n = 0 THEN <<>>
    ELSE ArgumentsAt(pos, n - 1)
         \o (IF FragmentOf(script[n]).index = pos
             THEN Unwrap(FragmentOf(script[n]).arguments) ELSE <<>>)

\* C8: two calls at different wire positions, each record with a one-element
\* tool_calls array; each delivered call has the arguments of the fragments
\* of its own position.
C8_PositionKeyed ==
    (/\ provider \in {"openai", "openrouter"}
     /\ Range(script) \subseteq {"F0", "G1", "F1"}
     /\ \A pos \in Positions : IsSome(ParseValue(ArgumentsAt(pos, Len(script))))
     /\ Finished /\ NoFailure)
    => /\ Len(CallsOf(items)) = Cardinality(Positions)
       /\ \A pos \in Positions :
             \E call \in Range(CallsOf(items)) :
                call.arguments = Unwrap(ParseValue(ArgumentsAt(pos, Len(script))))

---------------------------------------------------------------------------
(* Claims about the Ollama and Anthropic decoders *)

DecodeWhole(payload) ==
    IF provider = "ollama" THEN OllamaDecode(payload) ELSE AnthropicDecode(payload)

\* C5: records split across consecutive chunks are decoded to the items, in
\* the order, of the records arriving whole.
C5_SplitRecord ==
    (provider \in {"ollama", "anthropic"} /\ AllSent /\ NoTransportError)
    => items = DecodeWhole(wire)

---------------------------------------------------------------------------
(* Claims about the end of the OpenAI stream *)

\* The tool calls of the terminal items.
TerminalCalls ==
    {its.tool_calls : its \in {items[i] : i \in DoneItems(items)}}

\* C11: the terminal item of the OpenAI processor holds no call with the
\* placeholder (null) arguments: a call whose argument text is empty or does
\* not parse is not delivered.
C11_UnparsedDropped ==
    provider = "openai" =>
        \A calls \in TerminalCalls :
            IsSome(calls) =>
                \A k \in 1..Len(Unwrap(calls)) : Unwrap(calls)[k].arguments # Null

---------------------------------------------------------------------------
(* Claims about failures and usage in both processors *)

\* The items that report a failure of the transport.
StreamErrors == {i \in 1..Len(items) : ~items[i].ok /\ items[i].err = "Stream error"}

\* C12: a transport error is delivered as an Err item, no item follows it,
\* and so the tool calls accumulated before it are never delivered.
C12_TransportFailure ==
    provider \in {"openai", "openrouter"} =>
        /\ transport = "failed" => (items # <<>> /\ ~Last(items).ok)
        /\ \A i \in StreamErrors : i = Len(items)

\* The usage numbers of the record "Us", as an item carries them.
WireUsage == Some(TokenUsage(Usage(7)))

\* A usage record that comes before every terminal record of the payload.
UsageBeforeEnd ==
    \E k \in 1..Len(script) :
        /\ script[k] = "Us"
        /\ \A j \in 1..k : script[j] \notin {"Done", "Fin", "Bad"}

\* C13: no item with usage follows the item with done = true, and the usage
\* numbers of a record are delivered by the done item or by an item before it.
C13_UsageOrdering ==
    provider \in {"openai", "openrouter"} =>
        /\ \A i \in DoneItems(items) :
               \A j \in (i + 1)..Len(items) : ~IsSome(items[j].usage)
        /\ (AllSent /\ transport = "closed" /\ UsageBeforeEnd /\ DoneItems(items) # {})
               => \E i \in DoneItems(items) :
                      \E j \in 1..i : items[j].usage = WireUsage


\* The buffer holds the "data: " line of the usage record.
UsageLeft(buffer) ==
    \E k \in 1..Len(Lines(buffer)) : Lines(buffer)[k] = <<DataPrefix>> \o JsonText("Us")

---------------------------------------------------------------------------
(* Claims about the end of the OpenRouter, Ollama and Anthropic streams *)

\* The payload has text records only, and the transport has handed over at
\* least the "data: " line of each before closing.
TextOnlyReceived ==
    /\ script # <<>>
    /\ \A k \in 1..Len(script) : script[k] \in {"Ta", "Tb"}
    /\ sent >= Len(wire) - 2

RECURSIVE TextOf(_)
TextOf(rs) ==
    IF rs = <<>> THEN <<>>
    ELSE Unwrap(Unwrap(DocOf(Head(rs)).choices[1].delta).content) \o TextOf(Tail(rs))

\* C15: when the transport closes without [DONE] and without a finish_reason,
\* the consumer of the OpenRouter stream has received exactly one item with
\* done = true, and a complete record left without its blank line has been
\* decoded.
C15_CloseWithoutDone ==
    (/\ provider = "openrouter" /\ transport = "closed" /\ NoNetworkError
     /\ \A k \in 1..Len(script) : script[k] \notin {"Done", "Fin"})
    => /\ Cardinality(DoneItems(items)) = 1
       /\ TextOnlyReceived => ContentOf(items) = TextOf(script)

\* C16: the Ollama and Anthropic streams emit nothing after an item with
\* done = true, so they carry at most one such item.
C16_NothingAfterDone ==
    provider \in {"ollama", "anthropic"} =>
        \A i \in DoneItems(items) : i = Len(items)

---------------------------------------------------------------------------
(* Claims about the fallback tool handler *)

\* The call has returned: its argument and its result.
FallbackReturned == called.fn = "process_fallback_response" /\ IsSome(returned)
FallbackContent == called.arg
FallbackResult == Unwrap(returned)

\* The complete marker pairs of a text: an opening marker and the first
\* closing marker after it, from left to right.
Pairs(text) == Captures(text, 1)

\* The tokens between the markers of a pair, without white space around.
Wrapped(text, pair) == Trim(SubSeq(text, pair.open + 1, pair.close - 1))

\* The text without the tokens of its pairs, markers included, then trimmed.
Remainder(text) ==
    LET inPair(i) == \E k \in 1..Len(Pairs(text)) :
                        Pairs(text)[k].open <= i /\ i <= Pairs(text)[k].close
        RECURSIVE Keep(_)
        Keep(i) == IF i > Len(text) THEN <<>>
                   ELSE (IF inPair(i) THEN <<>> ELSE <<text[i]>>) \o Keep(i + 1)
    IN Trim(Keep(1))

\* Every pair wraps a JSON object with a name and arguments.
AllPairsWrapCalls(text) ==
    /\ Pairs(text) # <<>>
    /\ \A k \in 1..Len(Pairs(text)) : Wrapped(text, Pairs(text)[k]) \in {<<CallF>>, <<CallG>>}

\* C17: for a text whose marker pairs each wrap a JSON object with a name and
\* arguments, process_fallback_response returns one call per pair, in order,
\* with no id and the name and arguments of the pair, and the text without the
\* pairs, trimmed, when that has at least 10 bytes.
C17_Extraction ==
    (FallbackReturned /\ AllPairsWrapCalls(FallbackContent)) =>
        LET pairs == Pairs(FallbackContent)
        IN /\ FallbackResult.tool_calls
                = Some([k \in 1..Len(pairs) |->
                          ToolCall(None,
                                   IF Wrapped(FallbackContent, pairs[k]) = <<CallG>>
                                   THEN "g" ELSE "f",
                                   <<"{", "}">>)])
           /\ StrLen(Remainder(FallbackContent)) >= 10
                  => FallbackResult.text = Remainder(FallbackContent)

C17_Witness ==
    /\ FallbackReturned
    /\ FallbackContent = <<OpenTag, CallF, CloseTag, OpenTag, CallG, CloseTag>>
    /\ Len(Unwrap(FallbackResult.tool_calls)) = 2

\* An opening marker of the text with no closing marker after it.
Dangling(text) ==
    {i \in 1..Len(text) :
        text[i] = OpenTag /\ \A k \in (i + 1)..Len(text) : text[k] # CloseTag}

\* C18: for a text with an opening marker and no closing marker after it,
\* process_fallback_response returns no tool calls, and a text without the
\* dangling marker.
C18_DanglingMarker ==
    (FallbackReturned /\ Dangling(FallbackContent) # {}) =>
        /\ FallbackResult.tool_calls = None
        /\ Dangling(FallbackResult.text) = {}

\* C19: the text returned by process_fallback_response has no complete marker
\* pair, whatever the pairs of the input wrap.
C19_NoPairLeft ==
    FallbackReturned => Pairs(FallbackResult.text) = <<>>

\* C20: the text returned is the acknowledgement when a tool call was
\* extracted and the remainder has less than 10 bytes, the remainder when a
\* tool call was extracted and it has 10 bytes or more, and never the
\* acknowledgement when no tool call was extracted.
C20_Acknowledgement ==
    FallbackReturned =>
        LET extracted == IsSome(FallbackResult.tool_calls)
            short == StrLen(Remainder(FallbackContent)) < 10
        IN /\ (extracted /\ short) => FallbackResult.text = <<Acknowledgement>>
           /\ (extracted /\ ~short) => FallbackResult.text = Remainder(FallbackContent)
           /\ ~extracted => Acknowledgement \notin Range(FallbackResult.text)

C20_Witness ==
    /\ FallbackReturned
    /\ FallbackContent = <<Word, OpenTag, CallF, CloseTag>>
    /\ FallbackResult.text = <<Acknowledgement>>

---------------------------------------------------------------------------
(* Claims on the Ollama client *)

ProcessedByOllama ==
    /\ client.kind = "ollama"
    /\ called.fn = "process_fallback_response" /\ IsSome(returned)

\* C21: a client that is not in fallback mode returns from
\* process_fallback_response the content it was given and no tool calls,
\* whatever markers the content holds.
C21_NativeIdentity ==
    ProcessedByOllama /\ ~client.fallback_mode
        => Unwrap(returned) = [text |-> called.arg, tool_calls |-> None]

\* A client with a tool, in native mode, was given a complete marker pair.
C21_Witness ==
    /\ ProcessedByOllama /\ ~client.fallback_mode /\ client.tools # <<>>
    /\ called.arg = <<Word, OpenTag, CallF, CloseTag, Word, Word>>
    /\ Unwrap(returned).text = called.arg

RequestSent ==
    /\ client.kind = "ollama"
    /\ called.fn = "send_chat_request_stream_with_options" /\ IsSome(request)

SystemsOf(messages) == {i \in 1..Len(messages) : messages[i].role = "system"}

\* The messages with the catalogue text in the first system message, or in
\* a system message put in front of them.
WithCatalogue(messages, catalogue) ==
    IF SystemsOf(messages) = {}
    THEN <<Message("system", <<SystemPrompt>> \o catalogue)>> \o messages
    ELSE [i \in 1..Len(messages) |->
            IF i \in SystemsOf(messages) /\ \A j \in SystemsOf(messages) : i <= j
            THEN Message("system", messages[i].content \o catalogue)
            ELSE messages[i]]

\* C22: the request of a client in fallback mode with a tool carries the
\* catalogue text in the first system message of its copy of the messages
\* (a system message put first when there is none) and no tools field; the
\* request of a client in native mode with a tool carries the messages as
\* given and the tools field; no request carries both.
C22_RequestConstruction ==
    RequestSent =>
        LET body == Unwrap(request)
            messages == called.arg
            catalogue == generate_tool_context(client.tools)
        IN /\ client.fallback_mode /\ client.tools # <<>>
                => /\ body.messages = WithCatalogue(messages, catalogue)
                   /\ body.tools = None
           /\ ~client.fallback_mode /\ client.tools # <<>>
                => /\ body.messages = messages
                   /\ body.tools = Some(client.tools)
           /\ ~(IsSome(body.tools) /\ body.messages # messages)

\* A request in fallback mode whose messages hold two system messages, none
\* of them first.
C22_Witness ==
    /\ RequestSent /\ client.fallback_mode /\ Len(client.tools) = 2
    /\ Cardinality(SystemsOf(called.arg)) = 2 /\ 1 \notin SystemsOf(called.arg)
    /\ Unwrap(request).messages # called.arg

\* C23: fallback_mode is written by the add_tool call that registers the
\* first tool and by nothing else, and it never goes from true to false.
C23_ModeFixed ==
    [][client.kind = "ollama" /\ client'.fallback_mode # client.fallback_mode
          => /\ called'.fn = "add_tool"
             /\ client.tools = <<>> /\ Len(client'.tools) = 1
             /\ client'.fallback_mode]_vars

\* A second tool was added to a client in fallback mode.
C23_Witness ==
    /\ client.kind = "ollama" /\ client.fallback_mode
    /\ called.fn = "add_tool" /\ Len(client.tools) = 2

---------------------------------------------------------------------------
(* Claims on the OpenRouter client *)

\* C24: all the calls of is_fallback_mode and process_fallback_response
\* that a client makes with a tool registered use one mode, whatever the
\* probe answers on the later calls.
C24_ModeFixed ==
    client.kind = "openrouter" => Cardinality(modes) <= 1

---------------------------------------------------------------------------
(* Claims on the framing of the OpenRouter stream *)

\* Blocks of the text record "a": alone, after a comment line, after an
\* "event:" line.
FramedText ==
    /\ provider = "openrouter" /\ script # <<>>
    /\ \A k \in 1..Len(script) : script[k] \in {"Ta", "Ca", "Ea"}
    /\ OpenRouterDecoded /\ NoNetworkError

\* C25: a block with a comment line or a control line before its data line
\* yields the events of the data line alone.
C25_Framing ==
    FramedText =>
        events = OpenRouterProcessChunk(OpenRouterNew,
                                        Payload([k \in 1..Len(script) |-> "Ta"])).events

---------------------------------------------------------------------------
(* Claims on the tool calls of the Anthropic stream *)

\* The partial_json fragments of the records, concatenated.
RECURSIVE PartialJson(_)
PartialJson(rs) ==
    IF rs = <<>> THEN <<>>
    ELSE (IF Head(rs) \in {"Aj1", "Aj2"} THEN AnthropicDocOf(Head(rs)).partial_json ELSE <<>>)
         \o PartialJson(Tail(rs))

\* A tool_use block is opened and fragments of its input follow.
ToolUseWithFragments ==
    /\ provider = "anthropic" /\ Len(script) > 1 /\ script[1] = "Atool"
    /\ \A k \in 2..Len(script) : script[k] \in {"Aj1", "Aj2"}
    /\ NoTransportError

\* C26: the tool call of a tool_use block is delivered once the fragments of
\* its input concatenate to valid JSON, with that concatenation as its
\* arguments; no tool call is delivered with the empty input of
\* content_block_start when fragments follow.
C26_ToolInput ==
    ToolUseWithFragments =>
        /\ \A i \in 1..Len(CallsOf(items)) :
              CallsOf(items)[i].arguments = Significant(PartialJson(script))
        /\ AllSent /\ IsSome(ParseValue(PartialJson(script)))
              => Len(CallsOf(items)) = 1

---------------------------------------------------------------------------
(* Claims on streams decoded side by side *)

\* A stream decoded alone: a new processor given the chunks one by one.
RECURSIVE Alone(_, _)
Alone(p, chunks) ==
    IF chunks = <<>> THEN [self |-> NewProcessor(p), out |-> <<>>]
    ELSE LET before == Alone(p, SubSeq(chunks, 1, Len(chunks) - 1))
             r == StreamDecode(p, before.self, Last(chunks).bytes)
         IN [self |-> r.self, out |-> before.out \o r.out]

---------------------------------------------------------------------------
(* Claims on the content of the OpenAI stream *)

\* The text of a record: of a text record, alone in its block or after a
\* comment or control line, its content; of any other record, nothing.
RecordText(r) ==
    CASE r \in {"Ta", "Ca", "Ea"} -> <<"a">>
      [] r = "Tb" -> <<"b">>
      [] OTHER -> <<>>

\* The text of the records before the first [DONE] record.
RECURSIVE TextBeforeDone(_)
TextBeforeDone(rs) ==
    IF rs = <<>> \/ Head(rs) = "Done" THEN <<>>
    ELSE RecordText(Head(rs)) \o TextBeforeDone(Tail(rs))

\* The [DONE] record has been decoded.
DoneDecoded ==
    /\ provider = "openai" /\ openai.done /\ transport = "open"
    /\ NoTransportError

\* C28: the content of all the items yielded is the text, in the order of
\* the wire, of the text records before the terminal record, also when a
\* text record shares its chunk with [DONE] or with a record that does not
\* parse.
C28_NoContentLoss ==
    DoneDecoded => ContentOf(items) = TextBeforeDone(script)

---------------------------------------------------------------------------
(* Claims on the promotion of tool calls in the OpenRouter stream *)

\* Records with one fragment, of position 0.
OnePosition ==
    /\ provider = "openrouter" /\ NoNetworkError
    /\ Range(script) \subseteq {"F0", "F1", "Fy", "Fc", "Fw", "Fi", "Fn"}

\* How often the argument text of the position parses: the text starts
\* empty, every fragment is appended, and a text that parses starts anew.
RECURSIVE Promoted(_, _)
Promoted(rs, text) ==
    IF rs = <<>> THEN 0
    ELSE LET appended == text \o Unwrap(FragmentOf(Head(rs)).arguments)
         IN IF IsSome(ParseValue(appended)) THEN 1 + Promoted(Tail(rs), <<>>)
            ELSE Promoted(Tail(rs), appended)

\* C29: every time the argument text of a position parses, a ToolCall event
\* of the position is emitted, however the id and the name were delivered;
\* the text is never cleared without a ToolCall event.
C29_NoLostCall ==
    (OnePosition /\ OpenRouterDecoded)
    => Len(ToolCallEvents(events)) = Promoted(script, <<>>)

\* C30: the fragments of a position up to the first parse of its text give
\* one ToolCall event; with it the position has no entry in
\* accumulating_tool_args or tool_call_info.
C30_PromotedOnce ==
    (/\ OnePosition /\ OpenRouterDecoded
     /\ Promoted(script, <<>>) = 1
     /\ Promoted(SubSeq(script, 1, Len(script) - 1), <<>>) = 0)
    => /\ Len(ToolCallEvents(events)) = 1
       /\ 0 \notin DOMAIN openrouter.accumulating_tool_args
       /\ 0 \notin DOMAIN openrouter.tool_call_info

---------------------------------------------------------------------------
(* Claims on the items of the OpenAI stream *)

\* C31: an item of the OpenAI stream with done = false has no tool calls and
\* no usage; tool calls and usage come with the item that has done = true.
C31_OnlyOnTerminal ==
    provider = "openai" =>
        \A i \in 1..Len(items) :
            ~items[i].done => items[i].tool_calls = None /\ items[i].usage = None

\* An item was yielded for a chunk of tool-call fragments, and the terminal
\* item after it has the call.
C31_Witness ==
    /\ provider = "openai" /\ Len(items) >= 2
    /\ items[1].ok /\ ~items[1].done /\ items[1].content = <<>>
    /\ items[Len(items)].done /\ IsSome(items[Len(items)].tool_calls)


\* The calls of the terminal item.
TerminalToolCalls ==
    IF items # <<>> /\ items[Len(items)].done /\ IsSome(items[Len(items)].tool_calls)
    THEN Unwrap(items[Len(items)].tool_calls) ELSE <<>>

\* C32: the calls of the terminal item of the OpenAI stream are listed by
\* ascending position: of the calls "x" at position 0 and "z" at position 1,
\* "x" comes first.
C32_AscendingPositions ==
    (provider = "openai" /\ Len(TerminalToolCalls) = 2)
    => /\ TerminalToolCalls[1].id = Some("x")
       /\ TerminalToolCalls[2].id = Some("z")

---------------------------------------------------------------------------
(* Claims on the failure of the probe of the Ollama client *)

\* C33: an add_tool call that returns an error leaves the tool list and
\* fallback_mode as they were.
C33_FailedAddTool ==
    [][(/\ client.kind = "ollama"
        /\ called'.fn = "add_tool" /\ returned' = Some("Err"))
          => client' = client]_vars

---------------------------------------------------------------------------
(* Claims on the collectors of a whole response *)

\* The items up to and including the first one with done = true.
RECURSIVE UpToDone(_)
UpToDone(its) ==
    IF its = <<>> THEN <<>>
    ELSE IF Head(its).done THEN <<Head(its)>>
    ELSE <<Head(its)>> \o UpToDone(Tail(its))

CollectorReturned ==
    /\ called.fn = "send_chat_request_no_stream"
    /\ IsSome(returned) /\ Unwrap(returned).ok

\* C34: the tool calls a collector returns are the tool calls of all the
\* items of the stream up to and including the done item, in the order of
\* the stream.
C34_AllCallsCollected ==
    CollectorReturned =>
        LET calls == CallsOf(UpToDone(items))
        IN Unwrap(returned).tool_calls = IF calls = <<>> THEN None ELSE Some(calls)

---------------------------------------------------------------------------
(* Claims on the tool results of the OpenAI client *)

\* C35: the message handle_tool_calls makes of a tool result is converted
\* into a tool message whose tool_call_id is the id of the call ("unknown"
\* for a call without id) and whose content is the result.
C35_RoundTrip ==
    (client.kind = "openai" /\ called.fn = "handle_tool_calls" /\ IsSome(request))
    => LET tool_call == called.arg[1]
           sent_message == Unwrap(request)
       IN /\ sent_message.role = "tool"
          /\ sent_message.tool_call_id =
                 Some(IF IsSome(tool_call.id) THEN Unwrap(tool_call.id) ELSE <<"unknown">>)
          /\ sent_message.content = client.tools[1].result

---------------------------------------------------------------------------
(* Claims on StreamingXmlFilter *)

\* The text given to the filter so far.
Filtered == SubSeq(wire, 1, sent)

\* Every opening marker of the text has a closing marker after it.
AllClosed(text) ==
    \A i \in 1..Len(text) :
        text[i] = OpenTag => \E j \in (i + 1)..Len(text) : text[j] = CloseTag

NoMarker(text) == OpenTag \notin Range(text) /\ CloseTag \notin Range(text)

\* C36: when every opening marker given to the filter so far has been
\* followed by a closing marker, the filter is not inside a tool call, and a
\* chunk without markers given to it then is returned unchanged.
C36_ClosedIsOutside ==
    provider = "filter" =>
        /\ AllClosed(Filtered) => ~client.inside_tool_call
        /\ (/\ called.fn = "process_chunk" /\ NoMarker(called.arg)
            /\ AllClosed(SubSeq(wire, 1, sent - Len(called.arg))))
           => returned = Some(called.arg)

\* The text without its regions: a region goes from an opening marker to the
\* first closing marker after it, or to the end of the text.
RECURSIVE Outside(_, _)
Outside(text, inside) ==
    IF text = <<>> THEN <<>>
    ELSE IF inside
    THEN Outside(Tail(text), Head(text) # CloseTag)
    ELSE IF Head(text) = OpenTag THEN Outside(Tail(text), TRUE)
    ELSE (IF Head(text) = CloseTag THEN <<>> ELSE <<Head(text)>>)
         \o Outside(Tail(text), FALSE)

\* What the filter has returned, concatenated.
RECURSIVE Concat(_)
Concat(texts) == IF texts = <<>> THEN <<>> ELSE Head(texts) \o Concat(Tail(texts))
FilterOutput == Concat(items)

\* C37: process_chunk returns its input or the empty text, and what it has
\* returned, concatenated, is the text given to it without the regions
\* between the markers, all text outside of them kept.
C37_FilterOutput ==
    provider = "filter" =>
        /\ called.fn = "process_chunk" => returned \in {Some(called.arg), Some(<<>>)}
        /\ FilterOutput = Outside(Filtered, FALSE)
====
